---------------------------- MODULE Spec2Model ----------------------------
(***************************************************************************)
(* A model of the Lovelace interpreter (src/lovelace/runtime.py).          *)
(*                                                                         *)
(* Source text is modelled as a sequence of lexical tokens (identifiers,   *)
(* numbers, symbols; the double quote is a token of its own), a line as a  *)
(* token sequence and a program as a sequence of lines, as _preprocess     *)
(* leaves them.  Blanks between tokens are not represented.  The regular   *)
(* expressions of the dispatcher are modelled as patterns over tokens, the *)
(* host's eval() as a recursive-descent evaluator over the token language  *)
(* of the expression fragment described at PyEval, and the Python call     *)
(* stack as an explicit stack of frames.                                   *)
(***************************************************************************)
EXTENDS Integers, Sequences, FiniteSets, TLC

VARIABLES
    lines,      \* the Line Sequence run_string hands to _exec_block
    vars,       \* self.vars : name -> value
    mem,        \* self.mem  : int  -> value
    funcs,      \* self.funcs: name -> Function
    output,     \* what output_fn has been called with, in order
    stack,      \* the Python call stack of the run: frames, innermost last
    status,     \* "running", "raising" (an exception is propagating), "done", "error"
    exc         \* the exception that is propagating or that ended the run

vars_all == <<lines, vars, mem, funcs, output, stack, status, exc>>

-----------------------------------------------------------------------------
(* Tokens *)

Id(s)     == [k |-> "id",  s |-> s]
Num(n)    == [k |-> "num", n |-> n]
Flt(n, d) == [k |-> "flt", n |-> n, d |-> d]
Sym(s)    == [k |-> "sym", s |-> s]

DQ == Sym("\"")
SQ == Sym("'")

IsKw(t, s) == t.k = "id" /\ t.s = s

-----------------------------------------------------------------------------
(* Values: a dynamically tagged union.  Numbers are exact: an int is n, a  *)
(* float is the rational n/d in lowest terms with d > 0, and d = 0 is the  *)
(* float infinity.                                                         *)

IntV(n)      == [t |-> "int", n |-> n]
BoolV(b)     == [t |-> "bool", n |-> IF b THEN 1 ELSE 0]
StrV(s)      == [t |-> "str", s |-> s]
ListV(l)     == [t |-> "list", l |-> l]
NoneV        == [t |-> "none"]
InfV         == [t |-> "float", n |-> 1, d |-> 0]

Abs(n) == IF n < 0 THEN -n ELSE n

RECURSIVE GCD(_, _)
GCD(a, b) == IF b = 0 THEN a ELSE GCD(b, a % b)

FloatV(n, d) ==
    IF d = 0 THEN InfV
    ELSE LET g == GCD(Abs(n), Abs(d))
             sgn == IF d < 0 THEN -1 ELSE 1
         IN  [t |-> "float", n |-> sgn * (n \div g), d |-> sgn * (d \div g)]

IsNumeric(v) == v.t \in {"int", "bool", "float"}
DenOf(v) == IF v.t = "float" THEN v.d ELSE 1

\* The result of an operation that may raise.
Ok(v)     == [ok |-> TRUE, v |-> v]
Raised(e) == [ok |-> FALSE, exc |-> e]


-----------------------------------------------------------------------------
(* The host's conversions and operators on values. *)

\* bool(v)
Truthy(v) ==
    CASE v.t \in {"int", "bool", "float"} -> v.n # 0
      [] v.t = "str"  -> v.s # <<>>
      [] v.t = "list" -> v.l # <<>>
      [] v.t = "none" -> FALSE
      [] OTHER        -> TRUE

\* int(v): truncation of a number, the parse of a string that is one integer
\* literal (optionally signed); anything else raises.
PyInt(v) ==
    CASE v.t \in {"int", "bool"} -> Ok(v.n)
      [] v.t = "float" ->
            IF v.d = 0 THEN Raised("OverflowError")
            ELSE Ok(IF v.n >= 0 THEN v.n \div v.d ELSE -((-v.n) \div v.d))
      [] v.t = "str" ->
            IF Len(v.s) = 1 /\ v.s[1].k = "num" THEN Ok(v.s[1].n)
            ELSE IF Len(v.s) = 2 /\ v.s[1] \in {Sym("-"), Sym("+")} /\ v.s[2].k = "num"
                 THEN Ok(IF v.s[1] = Sym("-") THEN -v.s[2].n ELSE v.s[2].n)
            ELSE Raised("ValueError")
      [] OTHER -> Raised("TypeError")

\* float(v)
PyFloat(v) ==
    CASE v.t \in {"int", "bool"} -> Ok(FloatV(v.n, 1))
      [] v.t = "float" -> Ok(v)
      [] v.t = "str" ->
            IF Len(v.s) = 1 /\ v.s[1].k = "num" THEN Ok(FloatV(v.s[1].n, 1))
            ELSE IF Len(v.s) = 1 /\ v.s[1].k = "flt" THEN Ok(FloatV(v.s[1].n, v.s[1].d))
            ELSE IF v.s = <<Id("inf")>> THEN Ok(InfV)
            ELSE Raised("ValueError")
      [] OTHER -> Raised("TypeError")

\* repr(v) as source text.  A float that is not finite prints as a bare
\* name, and a builtin as <class 'name'>: neither is a literal.
RECURSIVE Repr(_)
RECURSIVE ReprItems(_, _)
ReprItems(l, i) ==
    IF i > Len(l) THEN <<>>
    ELSE (IF i > 1 THEN <<Sym(",")>> ELSE <<>>) \o Repr(l[i]) \o ReprItems(l, i + 1)

Repr(v) ==
    CASE v.t = "int"   -> IF v.n < 0 THEN <<Sym("-"), Num(-v.n)>> ELSE <<Num(v.n)>>
      [] v.t = "bool"  -> IF v.n = 1 THEN <<Id("True")>> ELSE <<Id("False")>>
      [] v.t = "float" ->
            IF v.d = 0 THEN <<Id("inf")>>
            ELSE IF v.n < 0 THEN <<Sym("-"), Flt(-v.n, v.d)>> ELSE <<Flt(v.n, v.d)>>
      [] v.t = "str"   ->
            LET q == IF (\E i \in 1..Len(v.s) : v.s[i] = SQ)
                        /\ ~(\E i \in 1..Len(v.s) : v.s[i] = DQ)
                     THEN DQ ELSE SQ
            IN  <<q>> \o v.s \o <<q>>
      [] v.t = "list"  -> <<Sym("[")>> \o ReprItems(v.l, 1) \o <<Sym("]")>>
      [] v.t = "none"  -> <<Id("None")>>
      [] OTHER         -> <<Sym("<"), Id("class"), SQ, Id(v.s), SQ, Sym(">")>>

\* a op b for the binary operators of the fragment; a failure is any of
\* the host's TypeError / ZeroDivisionError.
Fail == [ok |-> FALSE]

NumBin(op, a, b) ==
    LET an == a.n  ad == DenOf(a)
        bn == b.n  bd == DenOf(b)
        isf == a.t = "float" \/ b.t = "float"
        mk(n, d) == IF isf THEN FloatV(n, d) ELSE IntV(n)
    IN  CASE op = "/" ->
                IF bn = 0 THEN Fail
                ELSE IF bd = 0 THEN Ok(FloatV(0, 1))
                ELSE IF ad = 0 THEN Ok(InfV)
                ELSE Ok(FloatV(an * bd, ad * bn))
          [] op \in {"+", "-", "*"} /\ (ad = 0 \/ bd = 0) -> Ok(InfV)
          [] op = "+" -> Ok(mk(an * bd + bn * ad, ad * bd))
          [] op = "-" -> Ok(mk(an * bd - bn * ad, ad * bd))
          [] op = "*" -> Ok(mk(an * bn, ad * bd))
          [] op = "<" -> Ok(BoolV(an * bd < bn * ad))
          [] op = ">" -> Ok(BoolV(an * bd > bn * ad))
          [] OTHER    -> Fail

PyBin(op, a, b) ==
    CASE op = "==" ->
            IF IsNumeric(a) /\ IsNumeric(b)
            THEN Ok(BoolV(a.n * DenOf(b) = b.n * DenOf(a)))
            ELSE Ok(BoolV(a = b))
      [] op # "==" /\ IsNumeric(a) /\ IsNumeric(b) -> NumBin(op, a, b)
      [] op = "+" /\ a.t = "str" /\ b.t = "str"   -> Ok(StrV(a.s \o b.s))
      [] op = "+" /\ a.t = "list" /\ b.t = "list" -> Ok(ListV(a.l \o b.l))
      [] OTHER -> Fail

\* Calling a value: only the conversion intrinsics are callable.
PyCall(f, args) ==
    IF f.t # "builtin" \/ Len(args) # 1 THEN Fail
    ELSE LET a == args[1] IN
         CASE f.s = "int" ->
                 LET r == PyInt(a) IN IF r.ok THEN Ok(IntV(r.v)) ELSE Fail
           [] f.s \in {"float", "num"} ->
                 LET r == PyFloat(a) IN IF r.ok THEN r ELSE Fail
           [] f.s = "str"  -> Ok(IF a.t = "str" THEN a ELSE StrV(Repr(a)))
           [] f.s = "bool" -> Ok(BoolV(Truthy(a)))
           [] OTHER -> Fail

-----------------------------------------------------------------------------
(* eval(text, {"__builtins__": {}}, env) on the expression fragment:       *)
(*     expr  ::= sum [ ("<" | ">" | "==") sum ]                            *)
(*     sum   ::= term { ("+" | "-") term }                                 *)
(*     term  ::= unary { ("*" | "/") unary }                               *)
(*     unary ::= "-" unary | atom                                          *)
(*     atom  ::= number | string | name | name "(" items ")"               *)
(*             | "(" expr ")" | "[" items "]"                              *)
(* Whatever the host raises (SyntaxError, NameError, TypeError,            *)
(* ZeroDivisionError) is the one outcome Fail.  Subscripts, attributes,    *)
(* chained comparisons, and/or/not and the random intrinsics are outside   *)
(* the fragment and no modelled program uses them.                         *)

\* lines 189-195: the intrinsics, then the variables over them
Env(vs) == [n \in {"str", "int", "float", "bool", "num"} \cup DOMAIN vs |->
                IF n \in DOMAIN vs THEN vs[n] ELSE [t |-> "builtin", s |-> n]]

At(v, p) == [ok |-> TRUE, v |-> v, p |-> p]

\* the first index >= p of ts holding token t, or 0
RECURSIVE Find(_, _, _)
Find(ts, p, t) ==
    IF p > Len(ts) THEN 0 ELSE IF ts[p] = t THEN p ELSE Find(ts, p + 1, t)

\* the grammar's rules call one another through Parse(rule, ...); x is the
\* rule's extra argument (the closing bracket of a list of items, the
\* left operand of a chain of operators)
RECURSIVE Parse(_, _, _, _, _)

\* items up to the closing bracket, separated by commas
PyItems(ts, p, env, close) ==
    LET Cons(v, rest) ==
            IF rest.ok THEN [ok |-> TRUE, l |-> <<v>> \o rest.l, p |-> rest.p] ELSE Fail
        After(r) ==
            IF ~r.ok THEN Fail
            ELSE IF r.p > Len(ts) THEN Fail
            ELSE IF ts[r.p] = close THEN [ok |-> TRUE, l |-> <<r.v>>, p |-> r.p + 1]
            ELSE IF ts[r.p] = Sym(",")
                 THEN Cons(r.v, Parse("items", ts, r.p + 1, env, close))
            ELSE Fail
    IN  IF p > Len(ts) THEN Fail
        ELSE IF ts[p] = close THEN [ok |-> TRUE, l |-> <<>>, p |-> p + 1]
        ELSE After(Parse("expr", ts, p, env, NoneV))

PyAtom(ts, p, env) ==
    LET String(q) ==
            IF q = 0 THEN Fail ELSE At(StrV(SubSeq(ts, p + 1, q - 1)), q + 1)
        Paren(r) ==
            IF ~r.ok THEN Fail
            ELSE IF r.p <= Len(ts) /\ ts[r.p] = Sym(")") THEN At(r.v, r.p + 1) ELSE Fail
        List(r) == IF r.ok THEN At(ListV(r.l), r.p) ELSE Fail
        Result(c, q) == IF c.ok THEN At(c.v, q) ELSE Fail
        Call(name, a) ==
            IF ~a.ok THEN Fail
            ELSE IF name \notin DOMAIN env THEN Fail
            ELSE Result(PyCall(env[name], a.l), a.p)
        Name(n) ==
            CASE n = "True"  -> At(BoolV(TRUE), p + 1)
              [] n = "False" -> At(BoolV(FALSE), p + 1)
              [] n = "None"  -> At(NoneV, p + 1)
              [] n \in {"if", "else", "elif", "and", "or", "not", "in", "is", "for",
                        "return", "class", "def", "while", "lambda"} -> Fail
              [] OTHER -> IF p + 1 <= Len(ts) /\ ts[p + 1] = Sym("(")
                          THEN Call(n, Parse("items", ts, p + 2, env, Sym(")")))
                          ELSE IF n \in DOMAIN env THEN At(env[n], p + 1)
                          ELSE Fail
    IN  IF p > Len(ts) THEN Fail
        ELSE CASE ts[p].k = "num" -> At(IntV(ts[p].n), p + 1)
               [] ts[p].k = "flt" -> At(FloatV(ts[p].n, ts[p].d), p + 1)
               [] ts[p] \in {DQ, SQ} -> String(Find(ts, p + 1, ts[p]))
               [] ts[p] = Sym("(") -> Paren(Parse("expr", ts, p + 1, env, NoneV))
               [] ts[p] = Sym("[") -> List(Parse("items", ts, p + 1, env, Sym("]")))
               [] ts[p].k = "id" -> Name(ts[p].s)
               [] OTHER -> Fail

PyUnary(ts, p, env) ==
    LET Negate(r) ==
            IF ~r.ok THEN Fail
            ELSE IF ~IsNumeric(r.v) THEN Fail
            ELSE At(IF r.v.t = "float" THEN [r.v EXCEPT !.n = -r.v.n]
                    ELSE IntV(-r.v.n), r.p)
    IN  IF p <= Len(ts) /\ ts[p] = Sym("-")
        THEN Negate(Parse("unary", ts, p + 1, env, NoneV))
        ELSE Parse("atom", ts, p, env, NoneV)

\* a chain of operators from ops over operands of the rule below, left to
\* right: acc is the value so far
PyChainRest(ops, rest, operand, ts, p, env, acc) ==
    LET Apply(b, q) == IF b.ok THEN Parse(rest, ts, q, env, b.v) ELSE Fail
        Step(op, r) == IF ~r.ok THEN Fail ELSE Apply(PyBin(op, acc, r.v), r.p)
    IN  IF p <= Len(ts) /\ ts[p] \in ops
        THEN Step(ts[p].s, Parse(operand, ts, p + 1, env, NoneV))
        ELSE At(acc, p)
PyChain(rest, operand, ts, p, env) ==
    LET Start(r) == IF r.ok THEN Parse(rest, ts, r.p, env, r.v) ELSE Fail
    IN  Start(Parse(operand, ts, p, env, NoneV))

PyExpr(ts, p, env) ==
    LET Apply(b, q) == IF b.ok THEN At(b.v, q) ELSE Fail
        Rhs(op, a, r2) == IF ~r2.ok THEN Fail ELSE Apply(PyBin(op, a, r2.v), r2.p)
        Cmp(r) ==
            IF ~r.ok THEN Fail
            ELSE IF r.p <= Len(ts) /\ ts[r.p] \in {Sym("<"), Sym(">"), Sym("==")}
                 THEN Rhs(ts[r.p].s, r.v, Parse("sum", ts, r.p + 1, env, NoneV))
            ELSE r
    IN  Cmp(Parse("sum", ts, p, env, NoneV))

Parse(rule, ts, p, env, x) ==
    CASE rule = "expr"      -> PyExpr(ts, p, env)
      [] rule = "sum"       -> PyChain("sum_rest", "term", ts, p, env)
      [] rule = "sum_rest"  ->
            PyChainRest({Sym("+"), Sym("-")}, "sum_rest", "term", ts, p, env, x)
      [] rule = "term"      -> PyChain("term_rest", "unary", ts, p, env)
      [] rule = "term_rest" ->
            PyChainRest({Sym("*"), Sym("/")}, "term_rest", "unary", ts, p, env, x)
      [] rule = "unary"     -> PyUnary(ts, p, env)
      [] rule = "atom"      -> PyAtom(ts, p, env)
      [] rule = "items"     -> PyItems(ts, p, env, x)

\* line 197 (and line 220): eval of a whole text
PyEval(ts, env) ==
    LET Whole(r) == IF r.ok /\ r.p = Len(ts) + 1 THEN Ok(r.v) ELSE Fail
    IN  IF ts = <<>> THEN Fail ELSE Whole(Parse("expr", ts, 1, env, NoneV))

-----------------------------------------------------------------------------
(* _eval *)

\* expr.strip('"'): every leading and every trailing double quote goes
RECURSIVE LStrip(_)
LStrip(ts) == IF ts # <<>> /\ Head(ts) = DQ THEN LStrip(Tail(ts)) ELSE ts
RECURSIVE RStrip(_)
RStrip(ts) ==
    IF ts # <<>> /\ ts[Len(ts)] = DQ THEN RStrip(SubSeq(ts, 1, Len(ts) - 1)) ELSE ts
Strip(ts) == RStrip(LStrip(ts))

RECURSIVE eval(_, _, _)
RECURSIVE mem_sub(_, _, _, _)

\* mem_read (lines 183-185): the index text is evaluated by _eval, int()
\* of it may raise, and the cell's repr is the replacement text
mem_read(idx_text, vs, mm) ==
    LET Cell(i) ==
            IF ~i.ok THEN i
            ELSE Ok(Repr(IF i.v \in DOMAIN mm THEN mm[i.v] ELSE IntV(0)))
        Index(r) == IF ~r.ok THEN r ELSE Cell(PyInt(r.v))
    IN  Index(eval(idx_text, vs, mm))

\* re.sub(r"mem\[(.+?)\]", mem_read, expr) from position p (line 186): the
\* leftmost "mem[", a non-empty lazy group up to the first "]" after it;
\* the replacement is not scanned again
mem_sub(ts, p, vs, mm) ==
    LET Join(head, rest) ==
            IF rest.ok THEN [ok |-> TRUE, ts |-> head \o rest.ts] ELSE rest
        Replace(r, q) ==
            IF ~r.ok THEN r ELSE Join(r.v, mem_sub(ts, q + 1, vs, mm))
        Match(q) ==
            IF q = 0
            THEN Join(<<ts[p]>>, mem_sub(ts, p + 1, vs, mm))
            ELSE Replace(mem_read(SubSeq(ts, p + 2, q - 1), vs, mm), q)
    IN  IF p > Len(ts) THEN [ok |-> TRUE, ts |-> <<>>]
        ELSE Match(IF IsKw(ts[p], "mem") /\ p + 1 <= Len(ts) /\ ts[p + 1] = Sym("[")
                   THEN Find(ts, p + 3, Sym("]")) ELSE 0)

\* _eval (lines 181-200): only the host's eval is inside the try
eval(expr, vs, mm) ==
    LET Host(r) == IF r.ok THEN r ELSE Ok(StrV(Strip(expr)))
        Text(sub) == IF ~sub.ok THEN sub ELSE Host(PyEval(sub.ts, Env(vs)))
    IN  Text(mem_sub(expr, 1, vs, mm))

-----------------------------------------------------------------------------
(* The dispatcher's regular expressions, as patterns over a line's tokens. *)
(* Positions in a line list are the source's: 0-based.                     *)

LineAt(L, i) == L[i + 1]

\* line == "end" (lines 62, 157, 254, 296, 311)
IsEnd(l) == l = <<Id("end")>>

\* ^var\s+([A-Za-z_]\w*)\s*\((.+)\)\s*$ (line 66)
IsVar(l) == /\ Len(l) >= 5 /\ IsKw(l[1], "var") /\ l[2].k = "id"
            /\ l[3] = Sym("(") /\ l[Len(l)] = Sym(")")
VarName(l) == l[2].s
VarExpr(l) == SubSeq(l, 4, Len(l) - 1)

\* ^mem\[(.+?)\]\s*=\s*(.+)$ (line 74): the lazy index group ends at the
\* first "]" that an "=" and a non-empty rest follow.  An "=" is also the
\* first character of "==" and "=>", whose rest then starts the value text.
StartsWithEq(t) == t \in {Sym("="), Sym("=="), Sym("=>")}
AfterEq(t) == IF t = Sym("==") THEN <<Sym("=")>> ELSE IF t = Sym("=>") THEN <<Sym(">")>> ELSE <<>>
RECURSIVE MemWriteSplit(_, _)
MemWriteSplit(l, k) ==
    IF k + 1 > Len(l) THEN 0
    ELSE IF l[k] = Sym("]") /\ StartsWithEq(l[k + 1])
            /\ (AfterEq(l[k + 1]) # <<>> \/ k + 2 <= Len(l))
         THEN k
    ELSE MemWriteSplit(l, k + 1)
IsMemWrite(l) == /\ Len(l) >= 5 /\ IsKw(l[1], "mem") /\ l[2] = Sym("[")
                 /\ MemWriteSplit(l, 4) # 0
MemIdxExpr(l) == SubSeq(l, 3, MemWriteSplit(l, 4) - 1)
MemRhs(l) == LET k == MemWriteSplit(l, 4) IN
             AfterEq(l[k + 1]) \o SubSeq(l, k + 2, Len(l))

\* ^out\s+(.+)$ (line 83)
IsOut(l) == Len(l) >= 2 /\ IsKw(l[1], "out")
OutExpr(l) == Tail(l)

\* ^sleep\((.+)\)\s*$ (line 90)
IsSleep(l) == /\ Len(l) >= 4 /\ IsKw(l[1], "sleep") /\ l[2] = Sym("(") /\ l[Len(l)] = Sym(")")
SleepExpr(l) == SubSeq(l, 3, Len(l) - 1)

\* ^spawn\s*\((.+)\)\s*\((.+)\)\s*$ (line 98): the first group is greedy, so
\* the groups split at the last ")(" that leaves both non-empty
SpawnSplits(l) == {k \in 4..(Len(l) - 3) : l[k] = Sym(")") /\ l[k + 1] = Sym("(")}
IsSpawn(l) == /\ Len(l) >= 7 /\ IsKw(l[1], "spawn") /\ l[2] = Sym("(") /\ l[Len(l)] = Sym(")")
              /\ SpawnSplits(l) # {}
SpawnSplit(l) == CHOOSE k \in SpawnSplits(l) : \A k2 \in SpawnSplits(l) : k2 <= k
SpawnCountExpr(l) == SubSeq(l, 3, SpawnSplit(l) - 1)
SpawnListPart(l) == SubSeq(l, SpawnSplit(l) + 2, Len(l) - 1)

\* ^if\s*\(.+\):\s*$ (lines 115, 155, 252, 294, 309)
IsIf(l) == /\ Len(l) >= 5 /\ IsKw(l[1], "if") /\ l[2] = Sym("(")
           /\ l[Len(l) - 1] = Sym(")") /\ l[Len(l)] = Sym(":")
\* ^elif\s*\(.+\):\s*$ (lines 119, 260)
IsElif(l) == /\ Len(l) >= 5 /\ IsKw(l[1], "elif") /\ l[2] = Sym("(")
             /\ l[Len(l) - 1] = Sym(")") /\ l[Len(l)] = Sym(":")
\* line == "else:" (lines 119, 260)
IsElse(l) == l = <<Id("else"), Sym(":")>>
\* hdr[hdr.find("(")+1 : hdr.rfind(")")] (lines 272, 275)
HeaderCond(l) == SubSeq(l, 3, Len(l) - 2)

\* ^loop\s*\((.+)\):\s*$ (line 124)
IsLoopCount(l) == /\ Len(l) >= 5 /\ IsKw(l[1], "loop") /\ l[2] = Sym("(")
                  /\ l[Len(l) - 1] = Sym(")") /\ l[Len(l)] = Sym(":")
LoopCountExpr(l) == SubSeq(l, 3, Len(l) - 2)

\* ^loop\s+([A-Za-z_]\w*):\s*$ (line 130)
IsLoopEach(l) == Len(l) = 3 /\ IsKw(l[1], "loop") /\ l[2].k = "id" /\ l[3] = Sym(":")
LoopEachName(l) == l[2].s

\* ^fn\s+([A-Za-z_]\w*)\s*\(([^)]*)\)\s*=>\s*(.+)$ (line 136)
IsFnExpr(l) == /\ Len(l) >= 6 /\ IsKw(l[1], "fn") /\ l[2].k = "id" /\ l[3] = Sym("(")
               /\ LET k == Find(l, 4, Sym(")")) IN
                  k # 0 /\ k + 2 <= Len(l) /\ l[k + 1] = Sym("=>")
\* ^fn\s+([A-Za-z_]\w*)\s*\(([^)]*)\):\s*$ (lines 145, 155, 252, 294, 309)
IsFnBlock(l) == /\ Len(l) >= 5 /\ IsKw(l[1], "fn") /\ l[2].k = "id" /\ l[3] = Sym("(")
                /\ LET k == Find(l, 4, Sym(")")) IN
                   k # 0 /\ k + 1 = Len(l) /\ l[k + 1] = Sym(":")
FnName(l) == l[2].s
FnArgList(l) == SubSeq(l, 4, Find(l, 4, Sym(")")) - 1)
FnExprText(l) == SubSeq(l, Find(l, 4, Sym(")")) + 2, Len(l))

\* ^return\s+.+$ (line 166) and line.startswith("return ") (line 231)
IsReturn(l) == Len(l) >= 2 /\ IsKw(l[1], "return")
ReturnExpr(l) == Tail(l)

\* ^([A-Za-z_]\w*)\(([^)]*)\)\s*$ (line 171)
IsCall(l) == /\ Len(l) >= 3 /\ l[1].k = "id" /\ l[2] = Sym("(") /\ Find(l, 3, Sym(")")) = Len(l)
CallName(l) == l[1].s
CallArgText(l) == SubSeq(l, 3, Len(l) - 1)

\* text.split(","): the pieces between the commas, empty ones included
RECURSIVE SplitComma(_)
SplitComma(ts) ==
    LET k == Find(ts, 1, Sym(",")) IN
    IF k = 0 THEN <<ts>>
    ELSE <<SubSeq(ts, 1, k - 1)>> \o SplitComma(SubSeq(ts, k + 1, Len(ts)))

NonEmpty(ss) == SelectSeq(ss, LAMBDA s : s # <<>>)

\* [a.strip() for a in arglist.split(",") if a.strip()] (lines 139, 148):
\* the parameter names (a parameter is one identifier in every modelled program)
ParamNames(ts) == [i \in 1..Len(NonEmpty(SplitComma(ts))) |->
                      NonEmpty(SplitComma(ts))[i][1].s]

\* [a.strip() for a in m.group(2).split(",")] if m.group(2).strip() else [] (line 173)
CallArgExprs(l) == IF CallArgText(l) = <<>> THEN <<>> ELSE SplitComma(CallArgText(l))

\* ^loop\s*(\(|[A-Za-z_]) (lines 155, 252, 294, 309) matches "loop" followed
\* by "(" or a name, and also any identifier that merely begins with "loop"
\* and goes on with a letter or an underscore; LoopPrefixed lists those
\* identifiers of the modelled programs.
LoopPrefixed == {"loopy"}

\* what the depth scans count as an opener (lines 155, 252, 294, 309)
IsOpener(l) ==
    \/ IsIf(l)
    \/ IsKw(l[1], "loop") /\ Len(l) >= 2 /\ (l[2] = Sym("(") \/ l[2].k = "id")
    \/ l[1].k = "id" /\ l[1].s \in LoopPrefixed
    \/ IsFnBlock(l)

\* the scan for the matching end (lines 153-159, 292-298, 307-313):
\* the value of j when the while loop stops
RECURSIVE scan_end(_, _, _, _)
scan_end(L, j, end, depth) ==
    IF j < end /\ depth > 0
    THEN LET t == LineAt(L, j) IN
         scan_end(L, j + 1, end,
                  IF IsOpener(t) THEN depth + 1
                  ELSE IF IsEnd(t) THEN depth - 1 ELSE depth)
    ELSE j

\* _handle_if's scan (lines 250-262): the headers list, each entry the
\* index of a header line and the line
RECURSIVE if_headers(_, _, _, _, _)
if_headers(L, j, end, depth, headers) ==
    IF j < end /\ depth > 0
    THEN LET t == LineAt(L, j) IN
         IF IsOpener(t) THEN if_headers(L, j + 1, end, depth + 1, headers)
         ELSE IF IsEnd(t)
              THEN IF depth - 1 = 0
                   THEN Append(headers, [idx |-> j, hdr |-> t])
                   ELSE if_headers(L, j + 1, end, depth - 1, headers)
         ELSE IF depth = 1 /\ (IsElif(t) \/ IsElse(t))
              THEN if_headers(L, j + 1, end, depth, Append(headers, [idx |-> j, hdr |-> t]))
         ELSE if_headers(L, j + 1, end, depth, headers)
    ELSE headers

\* lines 266-278: the arms, one per header but the last
if_blocks(headers) ==
    LET arm(k) == [else |-> IsElse(headers[k].hdr),
                   cond |-> IF IsElse(headers[k].hdr) THEN <<>>
                            ELSE HeaderCond(headers[k].hdr),
                   bs |-> headers[k].idx + 1,
                   be |-> headers[k + 1].idx]
    IN  [k \in 1..(Len(headers) - 1) |-> arm(k)]

\* lines 281-284: the index of the first arm that is the else arm or whose
\* condition is true, 0 when there is none; a condition may raise
RECURSIVE select_arm(_, _, _, _)
select_arm(blocks, k, vs, mm) ==
    LET Cond(c) ==
            IF ~c.ok THEN c
            ELSE IF Truthy(c.v) THEN Ok(k)
            ELSE select_arm(blocks, k + 1, vs, mm)
    IN  IF k > Len(blocks) THEN Ok(0)
        ELSE IF blocks[k].else THEN Ok(k)
        ELSE Cond(eval(blocks[k].cond, vs, mm))

-----------------------------------------------------------------------------
(* The call stack.  A frame is one active call of                          *)
(*   _exec_block        [f |-> "exec", lines, i, end]                      *)
(*   _handle_if         [f |-> "if", sel, after]                           *)
(*   _handle_loop_count [f |-> "loop_count", bs, be, count, k, after]      *)
(*   _handle_loop_each  [f |-> "loop_each", bs, be, items, k, after]       *)
(*   _call_func         [f |-> "call", body, i, backup]  (a block function)*)
(* A handler's caller is the _exec_block frame right below it, whose line  *)
(* list it works on.                                                       *)

ExecF(L, i, end) == [f |-> "exec", lines |-> L, i |-> i, end |-> end]

\* class Function (lines 23-27): expr is None for a block function
ExprFunction(args, expr)  == [args |-> args, isExpr |-> TRUE, expr |-> expr, body |-> <<>>]
BlockFunction(args, body) == [args |-> args, isExpr |-> FALSE, expr |-> <<>>, body |-> body]

Top   == stack[Len(stack)]
Below == SubSeq(stack, 1, Len(stack) - 1)

\* the frames the host lets a run nest before it raises RecursionError
StackLimit == 11

\* the first test of the dispatcher's chain that the line passes (lines 62-177)
LineKind(l) ==
    IF IsEnd(l) THEN "end"
    ELSE IF IsVar(l) THEN "var"
    ELSE IF IsMemWrite(l) THEN "mem"
    ELSE IF IsOut(l) THEN "out"
    ELSE IF IsSleep(l) THEN "sleep"
    ELSE IF IsSpawn(l) THEN "spawn"
    ELSE IF IsIf(l) THEN "if"
    ELSE IF IsElif(l) \/ IsElse(l) THEN "elif_else"
    ELSE IF IsLoopCount(l) THEN "loop_count"
    ELSE IF IsLoopEach(l) THEN "loop_each"
    ELSE IF IsFnExpr(l) THEN "fn_expr"
    ELSE IF IsFnBlock(l) THEN "fn_block"
    ELSE IF IsReturn(l) THEN "return"
    ELSE IF IsCall(l) THEN "call"
    ELSE "unrecognized"

\* the line _exec_block is at, while i < end (line 58)
Cur == LineAt(Top.lines, Top.i)
Doing(kind) == /\ status = "running" /\ stack # <<>>
               /\ Top.f = "exec" /\ Top.i < Top.end
               /\ LineKind(Cur) = kind

\* dict update: m with key k bound to v
Put(m, k, v) == [x \in DOMAIN m \cup {k} |-> IF x = k THEN v ELSE m[x]]
\* dict.pop(k, None)
Drop(m, k) == [x \in DOMAIN m \ {k} |-> m[x]]
EmptyDict == [x \in {} |-> 0]

\* an exception leaves the statement: nothing it would have assigned happens
Raise(e) == /\ status' = "raising" /\ exc' = e
            /\ UNCHANGED <<lines, vars, mem, funcs, output, stack>>

\* i += 1; continue
Advance == stack' = [stack EXCEPT ![Len(stack)].i = @ + 1]

\* the caller's frame on top of the stack s resumes at position i
Resume(s, i) == [s EXCEPT ![Len(s)].i = i]

-----------------------------------------------------------------------------
(* _exec_block: one action per statement shape, in the dispatcher's order. *)

\* run_string returns when the outermost _exec_block does (lines 38-40)
Leave(s) == /\ stack' = s
            /\ status' = IF s = <<>> THEN "done" ELSE status

\* what the caller of a returning _exec_block does next: _call_func moves to
\* its next body line (line 236); the handlers and run_string only go on
AfterExec(s) ==
    IF s # <<>> /\ s[Len(s)].f = "call" THEN Resume(s, s[Len(s)].i + 1) ELSE s

\* a dispatcher that steps over an end line
ExecEnd_stepped_over ==
    /\ Doing("end")
    /\ Advance
    /\ UNCHANGED <<lines, vars, mem, funcs, output, status, exc>>

\* line 62-63: a line "end" makes _exec_block return
ExecEnd ==
    /\ Doing("end")
    /\ Leave(AfterExec(Below))
    /\ UNCHANGED <<lines, vars, mem, funcs, output, exc>>

\* line 58, 178: the range is exhausted
ExecDone ==
    /\ status = "running" /\ stack # <<>>
    /\ Top.f = "exec" /\ Top.i >= Top.end
    /\ Leave(AfterExec(Below))
    /\ UNCHANGED <<lines, vars, mem, funcs, output, exc>>

\* lines 66-71
ExecVar ==
    /\ Doing("var")
    /\ LET Set(r) ==
               IF ~r.ok THEN Raise(r.exc)
               ELSE /\ vars' = Put(vars, VarName(Cur), r.v)
                    /\ Advance
                    /\ UNCHANGED <<lines, mem, funcs, output, status, exc>>
       IN  Set(eval(VarExpr(Cur), vars, mem))

\* lines 74-80
ExecMemWrite ==
    /\ Doing("mem")
    /\ LET Set(idx_val, r) ==
               IF ~r.ok THEN Raise(r.exc)
               ELSE /\ mem' = Put(mem, idx_val, r.v)
                    /\ Advance
                    /\ UNCHANGED <<lines, vars, funcs, output, status, exc>>
           Rhs(idx_val) ==
               IF ~idx_val.ok THEN Raise(idx_val.exc)
               ELSE Set(idx_val.v, eval(MemRhs(Cur), vars, mem))
           Index(ix) == IF ~ix.ok THEN Raise(ix.exc) ELSE Rhs(PyInt(ix.v))
       IN  Index(eval(MemIdxExpr(Cur), vars, mem))

\* lines 83-87
ExecOut ==
    /\ Doing("out")
    /\ LET Emit(r) ==
               IF ~r.ok THEN Raise(r.exc)
               ELSE /\ output' = Append(output, r.v)
                    /\ Advance
                    /\ UNCHANGED <<lines, vars, mem, funcs, status, exc>>
       IN  Emit(eval(OutExpr(Cur), vars, mem))

\* lines 90-95: the delay itself changes nothing
ExecSleep ==
    /\ Doing("sleep")
    /\ LET Delay(secs) ==
               IF ~secs.ok THEN Raise(secs.exc)
               ELSE IF secs.v.d = 0 THEN Raise("OverflowError")
               ELSE /\ Advance
                    /\ UNCHANGED <<lines, vars, mem, funcs, output, status, exc>>
           Secs(r) == IF ~r.ok THEN Raise(r.exc) ELSE Delay(PyFloat(r.v))
       IN  Secs(eval(SleepExpr(Cur), vars, mem))

\* line 35
Apps == {"chrome", "edge", "firefox", "safari", "opera", "notepad", "calc",
         "vscode", "terminal"}

\* lines 102-110: what random.choice may pick
SpawnChoices(list_part) ==
    IF Len(list_part) = 1 /\ list_part[1].k = "id" /\ list_part[1].s \in {"RAN", "ran", "Ran"}
    THEN {<<Id(a)>> : a \in Apps}
    ELSE LET names == NonEmpty(SplitComma(list_part)) IN
         IF names = <<>> THEN {<<Id("unknown")>>}
         ELSE {names[i] : i \in 1..Len(names)}

SpawnLabel(app) == StrV(<<Id("[spawn]")>> \o app \o <<Id("(simulated)")>>)

\* lines 98-112
ExecSpawn ==
    /\ Doing("spawn")
    /\ LET Times(count) ==
               IF ~count.ok THEN Raise(count.exc)
               ELSE /\ \E picks \in [1..count.v -> SpawnChoices(SpawnListPart(Cur))] :
                          output' = output \o [n \in 1..count.v |-> SpawnLabel(picks[n])]
                    /\ Advance
                    /\ UNCHANGED <<lines, vars, mem, funcs, status, exc>>
           Count(r) == IF ~r.ok THEN Raise(r.exc) ELSE Times(PyInt(r.v))
       IN  Count(eval(SpawnCountExpr(Cur), vars, mem))

\* lines 115-117 and _handle_if up to the arm's _exec_block (lines 240-283)
handle_if_select(L, i, end, vs, mm) ==
    LET Arm(headers, blocks, sel) ==
            IF ~sel.ok THEN sel
            ELSE Ok([sel   |-> sel.v,
                     arm   |-> IF sel.v = 0 THEN <<>>
                               ELSE <<ExecF(L, blocks[sel.v].bs, blocks[sel.v].be)>>,
                     after |-> headers[Len(headers)].idx + 1])
        Blocks(headers, blocks) == Arm(headers, blocks, select_arm(blocks, 1, vs, mm))
        Headers(headers) == Blocks(headers, if_blocks(headers))
    IN  Headers(if_headers(L, i + 1, end, 1, <<[idx |-> i, hdr |-> LineAt(L, i)]>>))

ExecIf ==
    /\ Doing("if")
    /\ LET Enter(s) ==
               IF Len(s) > StackLimit THEN Raise("RecursionError")
               ELSE /\ stack' = s
                    /\ UNCHANGED <<lines, vars, mem, funcs, output, status, exc>>
           Arm(h) ==
               IF ~h.ok THEN Raise(h.exc)
               ELSE Enter(Append(stack, [f |-> "if", sel |-> h.v.sel, after |-> h.v.after]) \o h.v.arm)
       IN  Arm(handle_if_select(Top.lines, Top.i, Top.end, vars, mem))

\* line 286 and line 116: _handle_if returns the position after the chain
IfReturn ==
    /\ status = "running" /\ stack # <<>> /\ Top.f = "if"
    /\ stack' = Resume(Below, Top.after)
    /\ UNCHANGED <<lines, vars, mem, funcs, output, status, exc>>

\* lines 119-121
ExecElifElse ==
    /\ Doing("elif_else")
    /\ Raise("RuntimeError: 'elif/else' without matching 'if'")

\* range(count) (line 300): the passes still to make
passes_left(count, k) == k < count

\* lines 124-127 and _handle_loop_count up to its for loop (lines 288-299)
ExecLoopCount ==
    /\ Doing("loop_count")
    /\ LET Enter(j, count) ==
               IF ~count.ok THEN Raise(count.exc)
               ELSE IF Len(stack) + 1 > StackLimit THEN Raise("RecursionError")
               ELSE /\ stack' = Append(stack, [f |-> "loop_count", bs |-> Top.i + 1,
                                             be |-> j - 1, count |-> count.v,
                                             k |-> 0, after |-> j])
                    /\ UNCHANGED <<lines, vars, mem, funcs, output, status, exc>>
           Count(j, r) == IF ~r.ok THEN Raise(r.exc) ELSE Enter(j, PyInt(r.v))
       IN  Count(scan_end(Top.lines, Top.i + 1, Top.end, 1),
                 eval(LoopCountExpr(Cur), vars, mem))

\* lines 300-301: one pass of the body
LoopCountIter ==
    /\ status = "running" /\ stack # <<>> /\ Top.f = "loop_count"
    /\ passes_left(Top.count, Top.k)
    /\ IF Len(stack) + 1 > StackLimit THEN Raise("RecursionError")
       ELSE /\ stack' = Append([stack EXCEPT ![Len(stack)].k = @ + 1],
                               ExecF(Below[Len(Below)].lines, Top.bs, Top.be))
            /\ UNCHANGED <<lines, vars, mem, funcs, output, status, exc>>

\* line 302 and line 126
LoopCountReturn ==
    /\ status = "running" /\ stack # <<>> /\ Top.f = "loop_count"
    /\ ~passes_left(Top.count, Top.k)
    /\ stack' = Resume(Below, Top.after)
    /\ UNCHANGED <<lines, vars, mem, funcs, output, status, exc>>

\* list(arr) (line 315): a list's elements, a string's characters (here its
\* tokens); anything else is not iterable
PyList(v) ==
    CASE v.t = "list" -> Ok(v.l)
      [] v.t = "str"  -> Ok([n \in 1..Len(v.s) |-> StrV(<<v.s[n]>>)])
      [] OTHER        -> Raised("TypeError")

\* lines 130-133 and _handle_loop_each up to its for loop (lines 304-315)
ExecLoopEach ==
    /\ Doing("loop_each")
    /\ LET Enter(j, items) ==
               IF ~items.ok THEN Raise(items.exc)
               ELSE IF Len(stack) + 1 > StackLimit THEN Raise("RecursionError")
               ELSE /\ stack' = Append(stack, [f |-> "loop_each", bs |-> Top.i + 1,
                                             be |-> j - 1, items |-> items.v,
                                             k |-> 0, after |-> j])
                    /\ UNCHANGED <<lines, vars, mem, funcs, output, status, exc>>
       IN  Enter(scan_end(Top.lines, Top.i + 1, Top.end, 1),
                 PyList(IF LoopEachName(Cur) \in DOMAIN vars
                        THEN vars[LoopEachName(Cur)] ELSE ListV(<<>>)))

\* lines 315-317: bind item, one pass of the body
LoopEachIter ==
    /\ status = "running" /\ stack # <<>> /\ Top.f = "loop_each"
    /\ Top.k < Len(Top.items)
    /\ IF Len(stack) + 1 > StackLimit THEN Raise("RecursionError")
       ELSE /\ vars' = Put(vars, "item", Top.items[Top.k + 1])
            /\ stack' = Append([stack EXCEPT ![Len(stack)].k = @ + 1],
                               ExecF(Below[Len(Below)].lines, Top.bs, Top.be))
            /\ UNCHANGED <<lines, mem, funcs, output, status, exc>>

\* lines 318-319 and line 132
LoopEachReturn ==
    /\ status = "running" /\ stack # <<>> /\ Top.f = "loop_each"
    /\ Top.k >= Len(Top.items)
    /\ vars' = Drop(vars, "item")
    /\ stack' = Resume(Below, Top.after)
    /\ UNCHANGED <<lines, mem, funcs, output, status, exc>>

\* a function table that keeps the first definition of a name
ExecFnExpr_write_once ==
    /\ Doing("fn_expr")
    /\ funcs' = IF FnName(Cur) \in DOMAIN funcs THEN funcs
                ELSE Put(funcs, FnName(Cur),
                         ExprFunction(ParamNames(FnArgList(Cur)), FnExprText(Cur)))
    /\ Advance
    /\ UNCHANGED <<lines, vars, mem, output, status, exc>>

\* lines 136-142
ExecFnExpr ==
    /\ Doing("fn_expr")
    /\ funcs' = Put(funcs, FnName(Cur),
                    ExprFunction(ParamNames(FnArgList(Cur)), FnExprText(Cur)))
    /\ Advance
    /\ UNCHANGED <<lines, vars, mem, output, status, exc>>

\* lines 145-163: body = lines[body_start:j-1], i = j
ExecFnBlock ==
    /\ Doing("fn_block")
    /\ LET Define(j) ==
               /\ funcs' = Put(funcs, FnName(Cur),
                               BlockFunction(ParamNames(FnArgList(Cur)),
                                             SubSeq(Top.lines, Top.i + 2, j - 1)))
               /\ stack' = Resume(stack, j)
       IN  Define(scan_end(Top.lines, Top.i + 1, Top.end, 1))
    /\ UNCHANGED <<lines, vars, mem, output, status, exc>>

\* a dispatcher that steps over a return line
ExecReturn_stepped_over ==
    /\ Doing("return")
    /\ Advance
    /\ UNCHANGED <<lines, vars, mem, funcs, output, status, exc>>

\* lines 166-168
ExecReturn ==
    /\ Doing("return")
    /\ Raise("RuntimeError: 'return' used outside of a function")

\* line 177
ExecUnrecognized ==
    /\ Doing("unrecognized")
    /\ Raise("RuntimeError: Unrecognized syntax")

-----------------------------------------------------------------------------
(* _call_func *)

\* [self._eval(a) for a in arg_exprs] (line 206): the values, or the first
\* exception
RECURSIVE eval_args(_, _, _)
eval_args(arg_exprs, vs, mm) ==
    LET Cons(v, rest) == IF ~rest.ok THEN rest ELSE Ok(<<v>> \o rest.v)
        Rest(r) == IF ~r.ok THEN r ELSE Cons(r.v, eval_args(Tail(arg_exprs), vs, mm))
    IN  IF arg_exprs = <<>> THEN Ok(<<>>)
        ELSE Rest(eval(Head(arg_exprs), vs, mm))

\* a binding that gives every parameter the value of the first argument
bind_args_one_value(vs, names, vals) ==
    IF names = <<>> \/ vals = <<>> THEN vs
    ELSE [x \in DOMAIN vs \cup {names[n] : n \in 1..Len(names)} |->
             IF \E n \in 1..Len(names) : names[n] = x THEN Head(vals) ELSE vs[x]]

\* zip(fn.args, args_vals) applied to a dict in order (lines 210-213, 225-226)
RECURSIVE bind_args(_, _, _)
bind_args(vs, names, vals) ==
    IF names = <<>> \/ vals = <<>> THEN vs
    ELSE bind_args(Put(vs, Head(names), Head(vals)), Tail(names), Tail(vals))

\* lines 208-220, an expression function: mem[...] reads go through _eval,
\* which sees self.vars; the host's eval sees the variables and the arguments
\* only (no intrinsics) and is not inside a try
call_expr_func(fn, args_vals, vs, mm) ==
    LET Host(r) == IF r.ok THEN r ELSE Raised("EvalError")
        Text(sub, env) == IF ~sub.ok THEN sub ELSE Host(PyEval(sub.ts, env))
    IN  Text(mem_sub(fn.expr, 1, vs, mm), bind_args(vs, fn.args, args_vals))

\* line 223: frame_vars_backup = dict(self.vars)
frame_backup(vs) == vs

\* a call that ends without putting the snapshot back
frame_restore_skipped(backup, vs) == vs

\* line 238, the finally clause: self.vars = frame_vars_backup
frame_restore(backup, vs) == backup

\* lines 171-175 and _call_func up to the body loop (lines 202-228)
ExecCall ==
    /\ Doing("call")
    /\ LET Expr(r) ==
               IF ~r.ok THEN Raise(r.exc)
               ELSE /\ Advance
                    /\ UNCHANGED <<lines, vars, mem, funcs, output, status, exc>>
           Block(fn, args_vals) ==
               IF Len(stack) + 1 > StackLimit THEN Raise("RecursionError")
               ELSE /\ stack' = Append(stack, [f |-> "call", body |-> fn.body, i |-> 0,
                                             backup |-> frame_backup(vars)])
                    /\ vars' = bind_args(vars, fn.args, args_vals)
                    /\ UNCHANGED <<lines, mem, funcs, output, status, exc>>
           Call(fn, args_vals) ==
               IF ~args_vals.ok THEN Raise(args_vals.exc)
               ELSE IF fn.isExpr
               THEN Expr(call_expr_func(fn, args_vals.v, vars, mem))
               ELSE Block(fn, args_vals.v)
       IN  IF CallName(Cur) \notin DOMAIN funcs
           THEN Raise("RuntimeError: Unknown function")
           ELSE Call(funcs[CallName(Cur)], eval_args(CallArgExprs(Cur), vars, mem))

\* _call_func is at a body line: while i < len(fn.body) (line 229)
InCall == status = "running" /\ stack # <<>> /\ Top.f = "call"
BodyLine == LineAt(Top.body, Top.i)

\* lines 230-236: a body line that is no return goes to _exec_block alone
CallBodyLine ==
    /\ InCall /\ Top.i < Len(Top.body) /\ ~IsReturn(BodyLine)
    /\ IF Len(stack) + 1 > StackLimit THEN Raise("RecursionError")
       ELSE /\ stack' = Append(stack, ExecF(<<BodyLine>>, 0, 1))
            /\ UNCHANGED <<lines, vars, mem, funcs, output, status, exc>>

\* lines 231-232, 238 and 174: return at the body's top level; a bare call
\* drops the value
CallReturn ==
    /\ InCall /\ Top.i < Len(Top.body) /\ IsReturn(BodyLine)
    /\ LET Return(r) ==
               IF ~r.ok THEN Raise(r.exc)
               ELSE /\ vars' = frame_restore(Top.backup, vars)
                    /\ stack' = Resume(Below, Below[Len(Below)].i + 1)
                    /\ UNCHANGED <<lines, mem, funcs, output, status, exc>>
       IN  Return(eval(ReturnExpr(BodyLine), vars, mem))

\* a call whose end also empties the memory store
CallFallOff_memory_too ==
    /\ InCall /\ Top.i >= Len(Top.body)
    /\ vars' = frame_restore(Top.backup, vars)
    /\ mem' = EmptyDict
    /\ stack' = Resume(Below, Below[Len(Below)].i + 1)
    /\ UNCHANGED <<lines, funcs, output, status, exc>>

\* lines 229, 238 and 174: the body ran off its last line
CallFallOff ==
    /\ InCall /\ Top.i >= Len(Top.body)
    /\ vars' = frame_restore(Top.backup, vars)
    /\ stack' = Resume(Below, Below[Len(Below)].i + 1)
    /\ UNCHANGED <<lines, mem, funcs, output, status, exc>>

-----------------------------------------------------------------------------
(* A propagating exception leaves one frame per step; only _call_func has  *)
(* a finally clause (lines 237-238).                                       *)

Unwind ==
    /\ status = "raising" /\ stack # <<>>
    /\ stack' = Below
    /\ vars' = IF Top.f = "call" THEN frame_restore(Top.backup, vars) ELSE vars
    /\ UNCHANGED <<lines, mem, funcs, output, status, exc>>

\* the exception leaves run_string
Abort ==
    /\ status = "raising" /\ stack = <<>>
    /\ status' = "error"
    /\ UNCHANGED <<lines, vars, mem, funcs, output, stack, exc>>

-----------------------------------------------------------------------------
(* Source lines, written as the dispatcher's patterns read them. *)

P_var(n, e)      == <<Id("var"), Id(n), Sym("(")>> \o e \o <<Sym(")")>>
P_mem(ix, e)     == <<Id("mem"), Sym("[")>> \o ix \o <<Sym("]"), Sym("=")>> \o e
P_out(e)         == <<Id("out")>> \o e
P_sleep(e)       == <<Id("sleep"), Sym("(")>> \o e \o <<Sym(")")>>
P_spawn(c, l)    == <<Id("spawn"), Sym("(")>> \o c \o <<Sym(")"), Sym("(")>> \o l \o <<Sym(")")>>
P_if(c)          == <<Id("if"), Sym("(")>> \o c \o <<Sym(")"), Sym(":")>>
P_elif(c)        == <<Id("elif"), Sym("(")>> \o c \o <<Sym(")"), Sym(":")>>
P_else           == <<Id("else"), Sym(":")>>
P_end            == <<Id("end")>>
P_loop(e)        == <<Id("loop"), Sym("(")>> \o e \o <<Sym(")"), Sym(":")>>
P_each(n)        == <<Id("loop"), Id(n), Sym(":")>>
P_fnx(n, ps, e)  == <<Id("fn"), Id(n), Sym("(")>> \o ps \o <<Sym(")"), Sym("=>")>> \o e
P_fnb(n, ps)     == <<Id("fn"), Id(n), Sym("(")>> \o ps \o <<Sym(")"), Sym(":")>>
P_ret(e)         == <<Id("return")>> \o e
P_call(n, as)    == <<Id(n), Sym("(")>> \o as \o <<Sym(")")>>

\* "s" as expression text
Q(s) == <<DQ, Id(s), DQ>>
\* mem[e] as expression text
MemAt(e) == <<Id("mem"), Sym("[")>> \o e \o <<Sym("]")>>

-----------------------------------------------------------------------------
(* The programs run: small programs around each statement shape, each also *)
(* placed in a block-function body, in a loop(1) body and in an if(1) arm. *)

\* the largest literal loop count
MaxCount == 2

NumText(n) == IF n < 0 THEN <<Sym("-"), Num(-n)>> ELSE <<Num(n)>>

\* a snippet as it is, in the body of a block function that is then called,
\* in the body of a loop(1) and in the arm of an if(1)
Wrap(w, s) ==
    CASE w = "fn"   -> <<P_fnb("f", <<>>)>> \o s \o <<P_end, P_call("f", <<>>)>>
      [] w = "loop" -> <<P_loop(<<Num(1)>>)>> \o s \o <<P_end>>
      [] w = "if"   -> <<P_if(<<Num(1)>>)>> \o s \o <<P_end>>
      [] OTHER      -> s

\* if/elif/else chains; x is 5 where the conditions mention it
Conds == {<<Num(0)>>, <<Num(1)>>, <<Id("x"), Sym(">"), Num(3)>>,
          <<Id("x"), Sym("<"), Num(3)>>}
Chain(hasElif, hasElse, c1, c2) ==
    <<P_var("x", <<Num(5)>>), P_if(c1), P_out(Q("A"))>>
    \o (IF hasElif THEN <<P_elif(c2), P_out(Q("B"))>> ELSE <<>>)
    \o (IF hasElse THEN <<P_else, P_out(Q("C"))>> ELSE <<>>)
    \o <<P_end, P_out(Q("Z"))>>

\* counted loops: a literal count, and a count variable the body changes
CountRange == -1..MaxCount
LoopHi(n) == <<P_loop(NumText(n)), P_out(Q("hi")), P_end, P_out(Q("Z"))>>
LoopVar(n) == <<P_var("n", NumText(n)), P_loop(<<Id("n")>>),
                P_var("n", <<Id("n"), Sym("+"), Num(1)>>), P_out(Q("hi")), P_end>>

\* loops over a sequence: a list, an empty list, a string, a number, a name
\* that is not bound; a loop in a loop; a body that calls a block function
List12 == <<Sym("["), Num(1), Sym(","), Num(2), Sym("]")>>
EachOut(arr) == <<P_var("a", arr), P_each("a"), P_out(<<Id("item")>>), P_end,
                  P_out(<<Id("item")>>)>>
EachNested == <<P_var("a", List12), P_var("b", <<Sym("["), Num(7), Sym("]")>>),
                P_each("a"), P_each("b"), P_out(<<Id("item")>>), P_end,
                P_out(<<Id("item")>>), P_end>>
EachLoops ==
    {EachOut(arr) : arr \in {List12, <<Sym("["), Sym("]")>>, Q("s"), <<Num(5)>>}}
    \cup {EachNested,
          <<P_each("zz"), P_out(Q("E")), P_end, P_out(Q("Z"))>>,
          <<P_fnb("g", <<>>), P_var("item", <<Num(0)>>), P_end,
            P_var("a", List12), P_each("a"), P_call("g", <<>>),
            P_out(<<Id("item")>>), P_end>>}

\* the memory store: a write to cell 0, a write of 9 to cell k2, the reads
MemValues == {<<Num(7)>>, <<Sym("-"), Num(1)>>, Q("a"), List12,
              <<Id("float"), Sym("(")>> \o Q("inf") \o <<Sym(")")>>,
              <<Num(1), Sym("/"), Num(2)>>}
MemProg(v, k2) == <<P_mem(<<Num(0)>>, v), P_mem(<<Num(k2)>>, <<Num(9)>>),
                    P_out(MemAt(<<Num(0)>>)), P_out(MemAt(<<Num(1)>>)),
                    P_out(MemAt(<<Num(2)>>))>>
MemProgs ==
    {MemProg(v, k2) : v \in MemValues, k2 \in {0, 1}}
    \cup {<<P_mem(<<Num(0)>>, <<Num(7)>>),
            P_out(MemAt(<<Num(0)>>) \o <<Sym("+"), Num(1)>>)>>}

\* an expression function, called in an expression and by a bare call
SqProg(a) == <<P_fnx("sq", <<Id("n")>>, <<Id("n"), Sym("*"), Id("n")>>),
               P_out(<<Id("sq"), Sym("("), Num(a), Sym(")")>>),
               P_call("sq", <<Num(a)>>),
               P_var("y", <<Id("sq"), Sym("("), Num(a), Sym(")"), Sym("+"), Num(1)>>),
               P_out(<<Id("y")>>)>>

\* block functions: the body assigns an old and a new variable and ends by
\* return, by its last line or by an error; two parameters bound to the
\* caller's variables swapped; a function that calls itself
Endings == {<<P_ret(<<Num(1)>>), P_out(Q("T"))>>, <<>>, <<<<Id("zzz")>>>>,
            <<P_ret(MemAt(<<Id("q")>>))>>}
BlockProg(ending) ==
    <<P_var("x", <<Num(1)>>), P_fnb("g", <<Id("p")>>),
      P_var("x", <<Num(2)>>), P_var("y", <<Id("p")>>), P_mem(<<Num(0)>>, <<Id("p")>>)>>
    \o ending
    \o <<P_end, P_call("g", <<Num(9)>>), P_out(<<Id("x")>>), P_out(MemAt(<<Num(0)>>))>>
BlockFnProgs ==
    {BlockProg(e) : e \in Endings}
    \cup {<<P_fnb("h", <<Id("a"), Sym(","), Id("b")>>), P_out(<<Id("a")>>),
            P_out(<<Id("b")>>), P_end, P_var("a", <<Num(1)>>), P_var("b", <<Num(2)>>),
            P_call("h", <<Id("b"), Sym(","), Id("a")>>)>>,
          <<P_fnb("r", <<>>), P_call("r", <<>>), P_end, P_call("r", <<>>)>>}

\* blocks with no end
Unterminated ==
    { <<P_if(c), P_out(Q("x")), P_out(Q("y"))>> : c \in {<<Num(0)>>, <<Num(1)>>} }
    \cup { <<P_loop(<<Num(2)>>), P_out(Q("x")), P_out(Q("y"))>>,
           <<P_var("a", List12), P_each("a"), P_out(Q("x")), P_out(Q("y"))>>,
           <<P_fnb("g", <<>>), P_out(Q("x")), P_out(Q("y"))>>,
           <<P_if(<<Num(0)>>), P_out(Q("x")), P_else, P_out(Q("y"))>> }

\* expressions the host cannot evaluate, in each statement that has one
BadExprs ==
    { <<P_out(<<Num(1), Sym("+")>>), P_out(Q("Z"))>>,
      <<P_out(Q("a") \o <<Sym("+")>>)>>,
      <<P_out(<<DQ>> \o Q("a") \o <<DQ>>)>>,
      <<P_out(Q("a") \o <<Sym("+"), Num(1)>>)>>,
      <<P_out(<<Num(1), Sym("/"), Num(0)>>)>>,
      <<P_out(MemAt(<<Id("q")>>))>>,
      <<P_out(MemAt(MemAt(<<Num(0)>>)))>>,
      <<P_var("v", MemAt(Q("a")))>>,
      <<P_mem(Q("a"), <<Num(1)>>)>>,
      <<P_mem(<<Num(0)>>, <<Num(1), Sym("/"), Num(0)>>), P_out(MemAt(<<Num(0)>>))>>,
      <<P_loop(<<Num(1), Sym("/"), Num(0)>>), P_out(Q("e")), P_end>>,
      <<P_loop(Q("a")), P_out(Q("e")), P_end>>,
      <<P_sleep(Q("a"))>>,
      <<P_spawn(Q("a"), <<Id("p")>>)>>,
      <<P_fnx("d", <<Id("a")>>, <<Id("a"), Sym("/"), Num(0)>>), P_call("d", <<Num(1)>>)>>,
      <<P_fnx("d", <<Id("a")>>, <<Id("a"), Sym("/"), Num(0)>>),
        P_call("d", MemAt(<<Id("q")>>))>> }

\* the delay and the simulated spawn; control lines out of place
Others ==
    { <<P_sleep(<<Num(1)>>), P_out(Q("Z"))>>,
      <<P_spawn(<<Num(2)>>, <<Id("p"), Sym(","), Id("q")>>)>>,
      <<P_spawn(<<Num(1)>>, <<Id("RAN")>>)>>,
      <<P_out(Q("a")), P_else, P_out(Q("b"))>>,
      <<P_out(Q("a")), P_elif(<<Num(1)>>), P_out(Q("b"))>>,
      <<P_out(Q("a")), P_ret(<<Num(1)>>), P_out(Q("b"))>>,
      <<P_out(Q("a")), <<Id("zzz")>>, P_out(Q("b"))>>,
      <<P_out(Q("a")), P_end, P_out(Q("b"))>>,
      <<P_out(Q("a")), P_call("nope", <<>>), P_out(Q("b"))>> }

\* expression functions called by a bare call: a parameter that shadows a
\* variable of the caller, a parameter used as a memory index (the caller
\* has a variable of that name, or has none)
ExprFnProgs ==
    { <<P_var("a", <<Num(1)>>),
        P_fnx("s", <<Id("a"), Sym(","), Id("b")>>, <<Id("a"), Sym("+"), Id("b")>>),
        P_call("s", <<Num(2), Sym(","), Num(3)>>), P_out(<<Id("a")>>)>>,
      <<P_mem(<<Num(0)>>, <<Num(5)>>), P_mem(<<Num(1)>>, <<Num(6)>>),
        P_var("i", <<Num(1)>>), P_fnx("g", <<Id("i")>>, MemAt(<<Id("i")>>)),
        P_call("g", <<Num(0)>>), P_out(Q("Z"))>>,
      <<P_mem(<<Num(0)>>, <<Num(5)>>), P_fnx("g", <<Id("i")>>, MemAt(<<Id("i")>>)),
        P_call("g", <<Num(0)>>), P_out(Q("Z"))>> }

\* the function table: a call of a name that is not registered, with an
\* argument that cannot be evaluated; a call before the fn statement; a name
\* defined twice, by a block and then by a block or by an expression; a block
\* function whose body writes a cell, defines a function and sets a variable
TableProgs ==
    { <<P_out(Q("a")), P_call("nope", MemAt(<<Id("q")>>)), P_out(Q("b"))>>,
      <<P_out(Q("a")), P_call("g", <<>>), P_fnb("g", <<>>), P_out(Q("G")), P_end>>,
      <<P_fnb("g", <<>>), P_out(Q("1")), P_end, P_call("g", <<>>),
        P_fnb("g", <<>>), P_out(Q("2")), P_end, P_call("g", <<>>)>>,
      <<P_fnb("g", <<>>), P_out(Q("1")), P_end, P_fnx("g", <<>>, <<Num(1)>>),
        P_call("g", <<>>), P_out(Q("2"))>>,
      <<P_fnb("f", <<>>), P_mem(<<Num(0)>>, <<Num(4)>>), P_fnx("k", <<>>, <<Num(1)>>),
        P_var("v", <<Num(3)>>), P_end, P_call("f", <<>>), P_call("k", <<>>),
        P_out(MemAt(<<Num(0)>>)), P_out(<<Id("v")>>)>> }

\* the lines s inside d blocks opened by the line open, one in the other
RECURSIVE Nest(_, _, _)
Nest(open, d, s) ==
    IF d = 0 THEN s ELSE <<open>> \o Nest(open, d - 1, s) \o <<P_end>>

\* blocks in blocks: six ifs and no call; a counted loop around an if around
\* a loop over a list; a counted loop whose body calls a function whose name
\* begins with "loop"
NestProgs ==
    { Nest(P_if(<<Num(1)>>), 6, <<P_out(Q("in"))>>) \o <<P_out(Q("Z"))>>,
      <<P_var("b", <<Sym("["), Num(7), Sym("]")>>), P_loop(<<Num(2)>>),
        P_if(<<Num(1)>>), P_each("b"), P_out(<<Id("item")>>), P_end,
        P_out(Q("i")), P_end, P_out(Q("l")), P_end, P_out(Q("Z"))>>,
      <<P_fnx("loopy", <<>>, <<Num(1)>>), P_loop(<<Num(2)>>),
        P_call("loopy", <<>>), P_out(Q("L")), P_end, P_out(Q("Z"))>> }

\* a block function f that is called once: a return at the top level of
\* the body, a return in an if of the body whose condition is false before
\* it, and no return
ReturnProgs ==
    [k \in {"plain", "nested", "none"} |->
        <<P_fnb("f", <<>>), P_out(Q("1"))>>
        \o (CASE k = "plain"  -> <<P_ret(<<Num(2)>>), P_out(Q("3"))>>
              [] k = "nested" -> <<P_if(<<Num(0)>>), P_ret(<<Num(1)>>), P_end,
                                   P_out(Q("2")), P_ret(<<Num(2)>>), P_out(Q("3"))>>
              [] OTHER        -> <<P_out(Q("2"))>>)
        \o <<P_end, P_call("f", <<>>), P_out(Q("Z"))>>]

\* a chain whose arm calls a function whose name begins with "loop"
LoopyProg(c) == <<P_fnx("loopy", <<>>, <<Num(1)>>), P_if(c),
                  P_call("loopy", <<>>), P_out(Q("L")), P_end, P_out(Q("Z"))>>

Snippets ==
    {Chain(TRUE, e2, c1, c2) : e2 \in BOOLEAN, c1 \in Conds, c2 \in Conds}
    \cup {Chain(FALSE, e2, c1, <<>>) : e2 \in BOOLEAN, c1 \in Conds}
    \cup {LoopHi(n) : n \in CountRange} \cup {LoopVar(n) : n \in CountRange}
    \cup EachLoops \cup MemProgs \cup {SqProg(a) : a \in {3, 4}}
    \cup BlockFnProgs \cup Unterminated \cup BadExprs \cup Others
    \cup {LoopyProg(c) : c \in {<<Num(0)>>, <<Num(1)>>}}
    \cup ExprFnProgs \cup TableProgs \cup NestProgs
    \cup {ReturnProgs[k] : k \in DOMAIN ReturnProgs}

Programs == {Wrap(w, s) : w \in {"top", "fn", "loop", "if"}, s \in Snippets}

-----
(* __init__ (lines 30-35) and run_string (lines 38-40) *)

Init ==
    /\ lines \in Programs
    /\ vars = EmptyDict
    /\ mem = EmptyDict
    /\ funcs = EmptyDict
    /\ output = <<>>
    /\ stack = <<ExecF(lines, 0, Len(lines))>>
    /\ status = "running"
    /\ exc = ""

Next ==
    \/ ExecEnd \/ ExecDone
    \/ ExecVar \/ ExecMemWrite \/ ExecOut \/ ExecSleep \/ ExecSpawn
    \/ ExecIf \/ IfReturn \/ ExecElifElse
    \/ ExecLoopCount \/ LoopCountIter \/ LoopCountReturn
    \/ ExecLoopEach \/ LoopEachIter \/ LoopEachReturn
    \/ ExecFnExpr \/ ExecFnBlock \/ ExecReturn \/ ExecCall \/ ExecUnrecognized
    \/ CallBodyLine \/ CallReturn \/ CallFallOff
    \/ Unwind \/ Abort

Spec == Init /\ [][Next]_vars_all

-----------------------------------------------------------------------------
(* Properties.  The expected outputs below are what the language rules     *)
(* give for the programs of the model; Txt(s) is the string value "s".     *)

Txt(s) == StrV(<<Id(s)>>)

\* the truth of a chain's condition, x being 5
CondTrue(c) == Truthy(eval(c, [n \in {"x"} |-> IntV(5)], EmptyDict).v)

\* what a chain emits in its arms: the arm of the first true condition, else
\* the else arm, else nothing
ChainArm(hasElif, hasElse, c1, c2) ==
    IF CondTrue(c1) THEN <<Txt("A")>>
    ELSE IF hasElif /\ CondTrue(c2) THEN <<Txt("B")>>
    ELSE IF hasElse THEN <<Txt("C")>>
    ELSE <<>>

\* max(0, n) times "hi"
HiTimes(n) == [k \in 1..(IF n > 0 THEN n ELSE 0) |-> Txt("hi")]

\* C1: a well-formed if/elif/else chain run by the dispatcher (at top level,
\* in a loop body, in an if arm) executes exactly the arm of the first true
\* condition, else the else arm, else no arm, and the run goes on after the
\* chain: the finished run has emitted that arm's marker and then "Z".
C1_SingleArm ==
    status \in {"done", "error"} =>
        \A w \in {"top", "loop", "if"} :
            /\ \A hasElif \in BOOLEAN, hasElse \in BOOLEAN, c1 \in Conds, c2 \in Conds :
                   lines = Wrap(w, Chain(hasElif, hasElse, c1, c2)) =>
                       /\ status = "done"
                       /\ output = ChainArm(hasElif, hasElse, c1, c2) \o <<Txt("Z")>>
            /\ \A c \in {<<Num(0)>>, <<Num(1)>>} :
                   lines = Wrap(w, LoopyProg(c)) =>
                       /\ status = "done"
                       /\ output = (IF CondTrue(c) THEN <<Txt("L")>> ELSE <<>>)
                                   \o <<Txt("Z")>>

\* C2: loop(N) runs its body max(0, N) times, N being the count at loop
\* entry: a body that emits "hi" has emitted it max(0, N) times when the run
\* is finished, also when the body changes the variable the count reads.
C2_CountedPasses ==
    status \in {"done", "error"} =>
        \A w \in {"top", "fn", "loop", "if"}, n \in CountRange :
            /\ lines = Wrap(w, LoopHi(n)) =>
                   status = "done" /\ output = HiTimes(n) \o <<Txt("Z")>>
            /\ lines = Wrap(w, LoopVar(n)) =>
                   status = "done" /\ output = HiTimes(n)

\* C3: a call of a registered function inside an expression yields the
\* function's result: after fn sq(n) => n * n, out sq(a) emits a * a, and
\* var y (sq(a) + 1) binds y to a * a + 1.
C3_CallInExpression ==
    status \in {"done", "error"} =>
        \A w \in {"top", "fn", "loop", "if"}, a \in {3, 4} :
            lines = Wrap(w, SqProg(a)) =>
                status = "done" /\ output = <<IntV(a * a), IntV(a * a + 1)>>

\* the value an expression of MemValues denotes
Written(v) == eval(v, EmptyDict, EmptyDict).v

\* C4: after mem[0] = v and a write of 9 to cell k2, a read of mem[0] yields
\* v exactly unless k2 is 0, a read of mem[1] yields 9 if k2 is 1, and a read
\* of a cell never written yields 0.
C4_MemRoundTrip ==
    status \in {"done", "error"} =>
        \A w \in {"top", "fn", "loop", "if"}, v \in MemValues, k2 \in {0, 1} :
            lines = Wrap(w, MemProg(v, k2)) =>
                /\ status = "done"
                /\ output = <<IF k2 = 0 THEN IntV(9) ELSE Written(v),
                              IF k2 = 1 THEN IntV(9) ELSE IntV(0),
                              IntV(0)>>

\* C5: at every point of the body of a loop NAME, item is bound to the
\* current element, and item is unbound once the loop has ended.
C5_ItemBound ==
    /\ (status = "running" /\ Len(stack) >= 2 /\ Top.f = "exec"
            /\ Below[Len(Below)].f = "loop_each") =>
           /\ "item" \in DOMAIN vars
           /\ vars["item"] = Below[Len(Below)].items[Below[Len(Below)].k]
    /\ status = "done" => "item" \notin DOMAIN vars

C7_BodyBlocks ==
    status \in {"done", "error"} =>
        /\ \A hasElif \in BOOLEAN, hasElse \in BOOLEAN, c1 \in Conds, c2 \in Conds :
               lines = Wrap("fn", Chain(hasElif, hasElse, c1, c2)) =>
                   /\ status = "done"
                   /\ output = ChainArm(hasElif, hasElse, c1, c2) \o <<Txt("Z")>>
        /\ \A n \in CountRange :
               lines = Wrap("fn", LoopHi(n)) =>
                   status = "done" /\ output = HiTimes(n) \o <<Txt("Z")>>

\* C8: a program with an opener that has no matching end fails with
\* MalformedBlock: it emits nothing, it does not finish successfully, and
\* the error it fails with is that one.
C8_UnterminatedFails ==
    \A w \in {"top", "fn", "loop", "if"}, u \in Unterminated :
        lines = Wrap(w, u) =>
            /\ output = <<>>
            /\ status # "done"
            /\ status = "error" => exc = "MalformedBlock"

\* the text without one pair of surrounding double quotes
StripPair(ts) ==
    IF Len(ts) >= 2 /\ ts[1] = DQ /\ ts[Len(ts)] = DQ
    THEN SubSeq(ts, 2, Len(ts) - 1) ELSE ts

\* the expression can be evaluated: its memory reads and the host's eval
\* both succeed
Evaluable(e) ==
    LET Host(sub) == sub.ok /\ PyEval(sub.ts, Env(vars)).ok
    IN  Host(mem_sub(e, 1, vars, mem))

\* C9: an out or var statement whose expression cannot be evaluated does
\* not raise: the value is the expression's text without one pair of
\* surrounding double quotes, and the run goes on.
C9_Fallback ==
    [][/\ (Doing("out") /\ ~Evaluable(OutExpr(Cur))) =>
              /\ status' = "running"
              /\ output' = Append(output, StrV(StripPair(OutExpr(Cur))))
       /\ (Doing("var") /\ ~Evaluable(VarExpr(Cur))) =>
              /\ status' = "running"
              /\ vars' = Put(vars, VarName(Cur), StrV(StripPair(VarExpr(Cur))))
      ]_vars_all

\* C10: no statement that evaluates an expression (a memory write, a counted
\* loop, spawn, sleep, a loop over a name, a bare call) fails on an
\* expression-level error.
C10_NoExpressionFailure ==
    [][(\E kind \in {"mem", "loop_count", "spawn", "sleep", "loop_each", "call"} :
            Doing(kind)) =>
           ~(status' = "raising"
             /\ exc' \in {"ValueError", "TypeError", "OverflowError", "EvalError"})
      ]_vars_all

\* the value of the expression e where the variables are env, the memory
\* reads of e included; ok is FALSE where e cannot be evaluated there
InEnvironment(e, env) ==
    LET Host(sub) == IF ~sub.ok THEN sub ELSE PyEval(sub.ts, env)
    IN  Host(mem_sub(e, 1, env, mem))

\* the transient environment of a call of fn: the caller's variables and,
\* over them, the parameters bound to the argument values
Transient(fn, args_vals) == bind_args(vars, fn.args, args_vals)

\* C11: a call of an expression function yields the value its expression has
\* in the caller's variables overlaid with the parameters, memory indexes
\* included, and leaves the variables and the memory as they were.
C11_TransientEnvironment ==
    [][(Doing("call") /\ CallName(Cur) \in DOMAIN funcs
            /\ funcs[CallName(Cur)].isExpr
            /\ eval_args(CallArgExprs(Cur), vars, mem).ok
            /\ InEnvironment(funcs[CallName(Cur)].expr,
                   Transient(funcs[CallName(Cur)],
                             eval_args(CallArgExprs(Cur), vars, mem).v)).ok) =>
           /\ call_expr_func(funcs[CallName(Cur)],
                             eval_args(CallArgExprs(Cur), vars, mem).v, vars, mem)
              = InEnvironment(funcs[CallName(Cur)].expr,
                    Transient(funcs[CallName(Cur)],
                              eval_args(CallArgExprs(Cur), vars, mem).v))
           /\ status' = "running"
           /\ vars' = vars /\ mem' = mem
      ]_vars_all

\* no _call_func is active
NoCallActive == \A n \in 1..Len(stack) : stack[n].f # "call"

\* C12: a return line the dispatcher reaches while no call is active fails
\* the run with the error "return used outside of a function", and a failing
\* run executes nothing more: it emits nothing and writes no cell.
C12_StrayReturnFatal ==
    [][/\ (Doing("return") /\ NoCallActive) =>
              /\ status' = "raising"
              /\ exc' = "RuntimeError: 'return' used outside of a function"
              /\ UNCHANGED <<vars, mem, funcs, output>>
       /\ status \in {"raising", "error"} =>
              /\ status' \in {"raising", "error"}
              /\ exc' = exc
              /\ UNCHANGED <<mem, funcs, output>>
      ]_vars_all

\* C12, its case: a return in a top-level loop body, after one line that
\* emitted "a" and before one that would emit "b", has ended the run.
C12_FailedAtReturn ==
    /\ lines = Wrap("loop", <<P_out(Q("a")), P_ret(<<Num(1)>>), P_out(Q("b"))>>)
    /\ status = "error"
    /\ exc = "RuntimeError: 'return' used outside of a function"
    /\ output = <<Txt("a")>>

\* the function table changed at most at the name being defined
OnlyDefined(name) ==
    /\ DOMAIN funcs' = DOMAIN funcs \cup {name}
    /\ \A n \in DOMAIN funcs \ {name} : funcs'[n] = funcs[n]

\* C13: a call of a name that is not in the function table fails with the
\* unknown-function error whatever its arguments are and changes nothing; a
\* call of a registered name does not; the table changes by fn statements
\* only, and a fn statement makes its name denote the new definition.
C13_FunctionTable ==
    [][/\ (Doing("call") /\ CallName(Cur) \notin DOMAIN funcs) =>
              /\ status' = "raising"
              /\ exc' = "RuntimeError: Unknown function"
              /\ UNCHANGED <<vars, mem, funcs, output>>
       /\ (Doing("call") /\ CallName(Cur) \in DOMAIN funcs) =>
              ~(status' = "raising" /\ exc' = "RuntimeError: Unknown function")
       /\ funcs' # funcs => (Doing("fn_expr") \/ Doing("fn_block"))
       /\ Doing("fn_expr") =>
              /\ OnlyDefined(FnName(Cur))
              /\ funcs'[FnName(Cur)].isExpr
              /\ funcs'[FnName(Cur)].args = ParamNames(FnArgList(Cur))
              /\ funcs'[FnName(Cur)].expr = FnExprText(Cur)
       /\ Doing("fn_block") =>
              /\ OnlyDefined(FnName(Cur))
              /\ ~funcs'[FnName(Cur)].isExpr
              /\ funcs'[FnName(Cur)].args = ParamNames(FnArgList(Cur))
      ]_vars_all

\* C13, its case: the call nope(mem[q]), whose argument would raise, has
\* failed the run as a call of an unknown function after "a" was emitted.
C13_UnknownBeforeArguments ==
    /\ lines = <<P_out(Q("a")), P_call("nope", MemAt(<<Id("q")>>)), P_out(Q("b"))>>
    /\ status = "error"
    /\ exc = "RuntimeError: Unknown function"
    /\ output = <<Txt("a")>>

\* the number of calls that are active
CallDepth == Cardinality({n \in 1..Len(stack) : stack[n].f = "call"})

C15_FirstTopLevelReturn ==
    status \in {"done", "error"} =>
        \A w \in {"top", "loop", "if"} :
            /\ lines = Wrap(w, ReturnProgs["plain"]) =>
                   status = "done" /\ output = <<Txt("1"), Txt("Z")>>
            /\ lines = Wrap(w, ReturnProgs["nested"]) =>
                   status = "done" /\ output = <<Txt("1"), Txt("2"), Txt("Z")>>
            /\ lines = Wrap(w, ReturnProgs["none"]) =>
                   status = "done" /\ output = <<Txt("1"), Txt("2"), Txt("Z")>>

\* the block openers the language has: if (...):, loop (...):, loop NAME:
\* and fn NAME(...):
IsBlockOpener(l) == IsIf(l) \/ IsLoopCount(l) \/ IsLoopEach(l) \/ IsFnBlock(l)

\* the position of the end that closes the block whose lines start at j, by
\* a depth counter that openers raise and end lines lower; -1 if there is
\* none before position end
RECURSIVE MatchingEnd(_, _, _, _)
MatchingEnd(L, j, end, depth) ==
    IF j >= end THEN -1
    ELSE IF IsEnd(LineAt(L, j))
         THEN IF depth = 1 THEN j ELSE MatchingEnd(L, j + 1, end, depth - 1)
    ELSE IF IsBlockOpener(LineAt(L, j)) THEN MatchingEnd(L, j + 1, end, depth + 1)
    ELSE MatchingEnd(L, j + 1, end, depth)

\* the matching end of the opener the dispatcher is at
EndOfBlock == MatchingEnd(Top.lines, Top.i + 1, Top.end, 1)

\* C16: where the dispatcher, working on the program's lines, handles an
\* opener whose block is terminated, it resumes right after the matching
\* end: the handler it enters returns that position, and a fn statement
\* moves there.
C16_ResumeAfterMatchingEnd ==
    [][(status = "running" /\ stack # <<>> /\ Top.f = "exec" /\ Top.lines = lines
            /\ Top.i < Top.end /\ LineKind(Cur) \in {"if", "loop_count", "loop_each", "fn_block"}
            /\ EndOfBlock >= 0 /\ status' = "running") =>
           IF LineKind(Cur) = "fn_block"
           THEN stack'[Len(stack)].i = EndOfBlock + 1
           ELSE stack'[Len(stack) + 1].after = EndOfBlock + 1
      ]_vars_all

\* the name of the loop the dispatcher is at has no sequence to give
NothingToIterate ==
    \/ LoopEachName(Cur) \notin DOMAIN vars
    \/ vars[LoopEachName(Cur)].t \notin {"list", "str"}

\* C17: a loop NAME whose name is unbound or bound to a value that is not
\* iterable does not raise and has no pass to make: the run goes on, and
\* when it is finished the loop body has emitted nothing.
C17_NothingToIterate ==
    /\ [][(Doing("loop_each") /\ NothingToIterate) =>
              /\ status' = "running"
              /\ stack'[Len(stack')].f = "loop_each"
              /\ stack'[Len(stack')].items = <<>>
         ]_vars_all
    /\ [](status \in {"done", "error"} =>
              \A w \in {"top", "loop", "if"} :
                  /\ lines = Wrap(w, EachOut(<<Num(5)>>)) =>
                         status = "done" /\ output = <<Txt("item")>>
                  /\ lines = Wrap(w, <<P_each("zz"), P_out(Q("E")), P_end, P_out(Q("Z"))>>) =>
                         status = "done" /\ output = <<Txt("Z")>>)

\* the n-th parameter of a function with the parameters names is not named
\* again after it
LastOfName(names, n) == \A m \in (n + 1)..Len(names) : names[m] # names[n]

\* C18: a call of a block function binds each parameter to the value its
\* argument has in the caller's variables, whatever the other parameters are
\* named, and changes no other variable.
C18_ArgumentsBeforeBinding ==
    [][(Doing("call") /\ CallName(Cur) \in DOMAIN funcs
            /\ ~funcs[CallName(Cur)].isExpr /\ status' = "running") =>
           LET names == funcs[CallName(Cur)].args
               exprs == CallArgExprs(Cur)
               bound == IF Len(names) < Len(exprs) THEN Len(names) ELSE Len(exprs)
           IN  /\ \A n \in 1..bound :
                      LastOfName(SubSeq(names, 1, bound), n) =>
                          vars'[names[n]] = eval(exprs[n], vars, mem).v
               /\ \A x \in DOMAIN vars :
                      (\A n \in 1..bound : names[n] # x) => vars'[x] = vars[x]
               /\ DOMAIN vars' = DOMAIN vars \cup {names[n] : n \in 1..bound}
      ]_vars_all

\* C18, its case: h(b, a), h having the parameters (a, b) and the caller
\* a = 1 and b = 2, has emitted its a and then its b: 2 and 1.
C18_SwappedArguments ==
    /\ lines = <<P_fnb("h", <<Id("a"), Sym(","), Id("b")>>), P_out(<<Id("a")>>),
                 P_out(<<Id("b")>>), P_end, P_var("a", <<Num(1)>>), P_var("b", <<Num(2)>>),
                 P_call("h", <<Id("b"), Sym(","), Id("a")>>)>>
    /\ status = "done"
    /\ output = <<IntV(2), IntV(1)>>

\* C19: an end line the dispatcher reaches makes that invocation return at
\* once; at program top level, where no caller is left, the run is then
\* finished without an error, and a finished run executes nothing more.
C19_StrayEndReturns ==
    [][/\ Doing("end") =>
              /\ Len(stack') < Len(stack)
              /\ status' = (IF Len(stack) = 1 THEN "done" ELSE "running")
              /\ UNCHANGED <<vars, mem, funcs, output, exc>>
       /\ status = "done" => UNCHANGED vars_all
      ]_vars_all

\* C19, its case: the program out "a" / end / out "b" is finished without
\* an error, having emitted "a" only.
C19_StoppedAtEnd ==
    /\ lines = <<P_out(Q("a")), P_end, P_out(Q("b"))>>
    /\ status = "done"
    /\ exc = ""
    /\ output = <<Txt("a")>>

=============================================================================
